---- MODULE Spec2Model ----
(***************************************************************************)
(* electron-app-settings: the Settings store (lib/Settings.js), the main   *)
(* process module (lib/Main.js) and the renderer module (lib/Renderer.js). *)
(*                                                                         *)
(* Values.  A JavaScript value held in a store is a record                 *)
(*     [t |-> "num",  n |-> the number,  m |-> no properties]              *)
(*     [t |-> "map",  n |-> 0,           m |-> own properties]   (plain {})*)
(*     [t |-> "box",  n |-> the number,  m |-> own properties]             *)
(*     [t |-> "null", n |-> 0,           m |-> no properties]              *)
(* "box" is the Number wrapper object that Object.assign(5, {...}) returns.*)
(* Property names are sequences of one-character strings, so that the      *)
(* dot-syntax parsing of a key is computed and not assumed.                *)
(***************************************************************************)
EXTENDS Integers, Sequences, FiniteSets, TLC

\* ------------------------------------------------------------------ values
EmptyMap == [k \in {} |-> 0]

Num(n) == [t |-> "num", n |-> n, m |-> EmptyMap]

Map(m) == [t |-> "map", n |-> 0, m |-> m]

Box(n, m) == [t |-> "box", n |-> n, m |-> m]

EmptyObj == Map(EmptyMap)

Null == [t |-> "null", n |-> 0, m |-> EmptyMap]

\* the value can hold properties: a plain object or a wrapper object
HoldsProps(v) == v.t \in {"map", "box"}

\* typeof v === 'object' (true of null as well)
IsObject(v) == v.t \in {"map", "box", "null"}

\* the value converts to true: `!obj[element]` is its negation
Truthy(v) == IF v.t = "num" THEN v.n # 0 ELSE v.t # "null"

\* obj[k] !== undefined, for obj other than null.  A property read on a
\* primitive number finds nothing.
HasProp(v, k) == HoldsProps(v) /\ k \in DOMAIN v.m

Merge(t, s) == [k \in (DOMAIN t) \cup (DOMAIN s) |-> IF k \in DOMAIN s THEN s[k] ELSE t[k]]

\* Object.assign(target, source): copies the own properties of source onto
\* target and returns target; a primitive target is wrapped (ToObject) and a
\* primitive or null source has no own properties.  The target is not null
\* (Object.assign(null, ...) throws a TypeError: see the callers).
ObjectAssign(target, source) ==
  LET props == IF HoldsProps(source) THEN source.m ELSE EmptyMap
  IN  IF target.t = "num" THEN Box(target.n, props)
      ELSE [target EXCEPT !.m = Merge(target.m, props)]

\* the value found by following the property names of path from v
RECURSIVE GetAt(_, _)
GetAt(v, path) == IF path = <<>> THEN v ELSE GetAt(v.m[Head(path)], Tail(path))

\* v with the value at path replaced by w (every prefix of path is an object)
RECURSIVE SetAt(_, _, _)
SetAt(v, path, w) ==
  IF path = <<>> THEN w
  ELSE LET k == Head(path)
       IN  [v EXCEPT !.m = Merge(v.m, (k :> SetAt(IF k \in DOMAIN v.m THEN v.m[k] ELSE EmptyObj,
                                                   Tail(path), w)))]

\* delete obj[k]
DeleteProp(v, k) == [v EXCEPT !.m = [j \in (DOMAIN v.m) \ {k} |-> v.m[j]]]

\* ------------------------------------------------------------------ keys
Backslash == "\\"

Dot == "."

\* mutant of MatchFrom: the key is split at every dot, escaped or not
RECURSIVE MatchFromEveryDot(_, _, _, _)
MatchFromEveryDot(key, i, cur, acc) ==
  LET flush == IF cur = <<>> THEN acc ELSE Append(acc, cur)
  IN  IF i > Len(key) THEN flush
      ELSE IF key[i] = Dot THEN MatchFromEveryDot(key, i + 1, <<>>, flush)
      ELSE MatchFromEveryDot(key, i + 1, Append(cur, key[i]), acc)

\* key.match(/([^\\\.]|\\.)+/g): the maximal runs of tokens, a token being a
\* character other than backslash and dot, or a backslash followed by any
\* character.  The backslash stays in the matched text.
RECURSIVE MatchFrom(_, _, _, _)
MatchFrom(key, i, cur, acc) ==
  LET flush == IF cur = <<>> THEN acc ELSE Append(acc, cur)
  IN  IF i > Len(key) THEN flush
      ELSE IF key[i] = Backslash
           THEN IF i < Len(key)
                THEN MatchFrom(key, i + 2, cur \o <<key[i], key[i + 1]>>, acc)
                ELSE MatchFrom(key, i + 1, <<>>, flush)
      ELSE IF key[i] = Dot THEN MatchFrom(key, i + 1, <<>>, flush)
      ELSE MatchFrom(key, i + 1, Append(cur, key[i]), acc)

\* the hierarchy of a key; <<>> stands for the null that match returns when
\* nothing matches
Hierarchy(key) == MatchFrom(key, 1, <<>>, <<>>)

\* ------------------------------------------------------------------ arguments
\* A JavaScript argument or message field: undefined, a boolean, a string (a
\* key, as its characters) or a value that can be stored (number or object).
Undefined == [t |-> "undef", s |-> <<>>, b |-> FALSE, v |-> EmptyObj]

Bool(b) == [t |-> "bool", s |-> <<>>, b |-> b, v |-> EmptyObj]

Str(s) == [t |-> "str", s |-> s, b |-> FALSE, v |-> EmptyObj]

Val(v) == [t |-> "val", s |-> <<>>, b |-> FALSE, v |-> v]

\* typeof a === 'object'
ArgIsObject(a) == a.t = "val" /\ IsObject(a.v)

\* the argument converts to true
ArgTruthy(a) ==
  IF a.t = "bool" THEN a.b
  ELSE IF a.t = "str" THEN a.s # <<>>
  ELSE IF a.t = "val" THEN Truthy(a.v)
  ELSE FALSE

\* ------------------------------------------------------------------ Settings
\* Settings._getStoragePath(key, create_path) on the storage root.
\*   status "ok":       obj is the object at path `parent` of root, element the
\*                      last name ('' = <<>> for the empty key)
\*   status "notfound": { obj: null, element: null }
\*   status "throw":    a TypeError left the function (hierarchy is null, a
\*                      property is read on null, or a property is created on
\*                      a primitive in strict mode)
\* root is the storage after the call: create_path inserts {} at every name
\* that is undefined, the last one included (the test i != hierarchy.length
\* is always true inside the loop).
\* mutant of Walk: a name that cannot be read or created ends the walk
\* silently, as a path that is not found
RECURSIVE WalkSilent(_, _, _, _)
WalkSilent(root, hier, i, create_path) ==
  IF i > Len(hier)
  THEN [status |-> "ok", root |-> root, parent |-> SubSeq(hier, 1, Len(hier) - 1),
        element |-> hier[Len(hier)]]
  ELSE IF HasProp(GetAt(root, SubSeq(hier, 1, i - 1)), hier[i])
  THEN WalkSilent(root, hier, i + 1, create_path)
  ELSE IF create_path /\ HoldsProps(GetAt(root, SubSeq(hier, 1, i - 1)))
  THEN WalkSilent(SetAt(root, SubSeq(hier, 1, i), EmptyObj), hier, i + 1, create_path)
  ELSE [status |-> "notfound", root |-> root, parent |-> <<>>, element |-> <<>>]

RECURSIVE Walk(_, _, _, _)
Walk(root, hier, i, create_path) ==
  IF i > Len(hier)
  THEN [status |-> "ok", root |-> root, parent |-> SubSeq(hier, 1, Len(hier) - 1),
        element |-> hier[Len(hier)]]
  ELSE LET at  == SubSeq(hier, 1, i - 1)
           obj == GetAt(root, at)
       IN  IF obj = Null
           THEN [status |-> "throw", root |-> root, parent |-> <<>>, element |-> <<>>]
           ELSE IF HasProp(obj, hier[i]) THEN Walk(root, hier, i + 1, create_path)
           ELSE IF ~create_path
                THEN [status |-> "notfound", root |-> root, parent |-> <<>>, element |-> <<>>]
           ELSE IF ~HoldsProps(obj)
                THEN [status |-> "throw", root |-> root, parent |-> <<>>, element |-> <<>>]
           ELSE Walk(SetAt(root, Append(at, hier[i]), EmptyObj), hier, i + 1, create_path)

_getStoragePath(root, key, create_path) ==
  IF key = <<>> THEN [status |-> "ok", root |-> root, parent |-> <<>>, element |-> <<>>]
  ELSE IF Hierarchy(key) = <<>>
       THEN [status |-> "throw", root |-> root, parent |-> <<>>, element |-> <<>>]
  ELSE Walk(root, Hierarchy(key), 1, create_path)

\* The head of set and of _set: a first argument that is an object is the
\* value for the whole storage, and the second argument is then is_default.
\* key is the key string, value the argument to store.
ShiftArgs(key, value, is_default) ==
  IF ArgIsObject(key)
  THEN [key |-> <<>>, value |-> key, is_default |-> ArgTruthy(value)]
  ELSE [key |-> key.s, value |-> value, is_default |-> is_default]

\* The object branch of _set for a non-empty key (value is an object, cur0 the
\* value at obj[element]): a value that converts to false is first replaced by
\* {}; a default set assigns the stored properties onto value and stores value,
\* a plain set assigns the properties of value onto the stored object.
\* stored is the new obj[element], value the value object after the call;
\* threw: the value is null and the default set's Object.assign(null, ...)
\* threw a TypeError, after line 148 has run.
AssignObject(cur0, value, is_default) ==
  LET cur == IF ~Truthy(cur0) THEN EmptyObj ELSE cur0
  IN  IF is_default /\ value = Null
      THEN [stored |-> cur, value |-> value, threw |-> TRUE]
      ELSE IF is_default
      THEN [stored |-> ObjectAssign(value, cur), value |-> ObjectAssign(value, cur),
            threw |-> FALSE]
      ELSE [stored |-> ObjectAssign(cur, value), value |-> value, threw |-> FALSE]

\* The other branch of _set for a non-empty key (value is no object):
\* obj[element] = is_default ? obj[element] === undefined ? value : obj[element] : value
AssignScalar(obj, element, value, is_default) ==
  IF is_default
  THEN (IF ~HasProp(obj, element) THEN value ELSE obj.m[element])
  ELSE value

\* Settings._set(key, value, is_default) on the storage root.  Returns the
\* storage after the call, the value argument after the call (Object.assign(value,
\* ...) of a default set writes into the caller's value object, which set()
\* emits afterwards) and whether the call threw (in _getStoragePath, or in
\* Object.assign(null, ...) of a default set of null).
_set(root, key, value, is_default) ==
  LET a == ShiftArgs(key, value, is_default)
      r == _getStoragePath(root, a.key, TRUE)
  IN  IF r.status = "throw" THEN [storage |-> r.root, value |-> a.value, threw |-> TRUE]
      ELSE IF r.element = <<>>
      THEN IF ArgIsObject(a.value)
           THEN IF a.is_default /\ a.value.v = Null
                THEN [storage |-> r.root, value |-> a.value, threw |-> TRUE]
                ELSE IF a.is_default
                THEN [storage |-> ObjectAssign(a.value.v, r.root),
                      value |-> Val(ObjectAssign(a.value.v, r.root)), threw |-> FALSE]
                ELSE [storage |-> ObjectAssign(r.root, a.value.v), value |-> a.value,
                      threw |-> FALSE]
           ELSE [storage |-> r.root, value |-> a.value, threw |-> FALSE]
      ELSE LET at  == Append(r.parent, r.element)
               obj == GetAt(r.root, r.parent)
           IN  IF ArgIsObject(a.value)
               THEN LET n == AssignObject(obj.m[r.element], a.value.v, a.is_default)
                    IN  [storage |-> SetAt(r.root, at, n.stored), value |-> Val(n.value),
                         threw |-> n.threw]
               ELSE [storage |-> SetAt(r.root, at,
                                       AssignScalar(obj, r.element, a.value.v, a.is_default)),
                     value |-> a.value, threw |-> FALSE]

\* Settings.set(key, value, is_default): _set, then emit "set" with
\* {key, value, is_default}.  emitted is FALSE when _set threw before the emit.
set(root, key, value, is_default) ==
  LET a == ShiftArgs(key, value, is_default)
      r == _set(root, Str(a.key), a.value, a.is_default)
  IN  [storage |-> r.storage, threw |-> r.threw, emitted |-> ~r.threw,
       arg |-> [key |-> Str(a.key), value |-> r.value, is_default |-> a.is_default]]

\* mutant of _unset: the path is looked up with create_path = true
_unsetCreating(root, key) ==
  LET r == _getStoragePath(root, key, TRUE)
  IN  IF r.status = "throw" \/ r.element = <<>> THEN [storage |-> root, ret |-> "throw"]
      ELSE [storage |-> SetAt(r.root, r.parent, DeleteProp(GetAt(r.root, r.parent), r.element)),
            ret |-> "true"]

\* Settings._unset(key).  ret is "true", "false" or "throw": for the empty key
\* the statement `_storage = {}` assigns to an undeclared identifier, which in
\* the strict mode of a class body is a ReferenceError; this._storage is never
\* written.
_unset(root, key) ==
  LET r == _getStoragePath(root, key, FALSE)
  IN  IF r.status = "throw" THEN [storage |-> root, ret |-> "throw"]
      ELSE IF r.status = "ok" /\ r.element = <<>> THEN [storage |-> root, ret |-> "throw"]
      ELSE IF r.status = "notfound" THEN [storage |-> root, ret |-> "false"]
      ELSE [storage |-> SetAt(root, r.parent, DeleteProp(GetAt(root, r.parent), r.element)),
            ret |-> "true"]

\* Settings.unset(key): _unset, then emit "unset" with {key} when it returned true
unset(root, key) ==
  LET r == _unset(root, key)
  IN  [storage |-> r.storage, ret |-> r.ret, emitted |-> r.ret = "true",
       arg |-> [key |-> Str(key), value |-> Undefined, is_default |-> FALSE]]

\* Settings.get(key): kind "value" with the value returned (null when the
\* path is not found: `return null`), or kind "throw"
get(root, key) ==
  LET r == _getStoragePath(root, key, FALSE)
  IN  IF r.status = "throw" THEN [kind |-> "throw", v |-> EmptyObj]
      ELSE IF r.status = "ok" /\ r.element = <<>> THEN [kind |-> "value", v |-> root]
      ELSE IF r.status = "notfound" THEN [kind |-> "value", v |-> Null]
      ELSE [kind |-> "value", v |-> GetAt(root, r.parent).m[r.element]]

\* Settings.has(key)
has(root, key) ==
  LET r == _getStoragePath(root, key, FALSE)
  IN  r.status = "ok"

\* ------------------------------------------------------------------ bounds
\* Spec: total number of public set/unset calls made by the callers of all processes
MaxCalls == 1

\* SpecSync: total number of public set/unset calls
MaxSyncCalls == 2

\* SpecStore: number of public set/unset calls on the one store
MaxStoreCalls == 2

\* Spec: total number of page events (a load of the renderer module, a
\* 'beforeunload', a closed channel) of all endpoints
MaxPageEvents == 3

\* SpecFile: the hours of the clock, which name the backups
MaxHour == 2

\* SpecFile: number of 'before-quit' events the host emits by itself
MaxQuits == 2

\* SpecFile: number of public set/unset calls of the main process
MaxFileCalls == 1

\* public calls made by the callers of the pages of SpecRace
MaxRaceCalls == 2

\* promises calls made by the caller of one page
MaxPromiseCalls == 3

\* the renderer endpoints (webContents) of the model
Endpoints == {"r1", "r2"}

Main == "main"

\* ------------------------------------------------------------------ inputs
kx == <<"x">>

km == <<"m">>

ka == <<"a">>

kb == <<"b">>

Obj1(k, v) == Map((k :> v))

Obj2(k1, v1, k2, v2) == Map((k1 :> v1) @@ (k2 :> v2))

\* Spec: the calls the callers make, and the storage the main process holds
\* once createSettings has returned (the content of the settings file, {}
\* when there is none)
ReplSets ==
  { <<Str(kx), Val(Num(1)), FALSE>>, <<Str(km), Val(Obj1(ka, Num(1))), TRUE>> }

ReplUnsets == {kx}

ReplStores == {EmptyObj, Obj2(kx, Num(1), km, Obj1(kb, Num(2)))}

\* SpecSync: plain numbers on x, default objects on m
SyncSets ==
  { <<Str(kx), Val(Num(1)), FALSE>>, <<Str(kx), Val(Num(2)), FALSE>>,
    <<Str(km), Val(Obj1(ka, Num(1))), TRUE>>, <<Str(km), Val(Obj1(ka, Num(2))), TRUE>> }

SyncUnsets == {kx}

\* SpecStore: keys "", "a", "b", "a.b" and "a\.b" (an escaped dot); numbers,
\* null and objects as values
StoreKeys == {<<>>, ka, kb, <<"a", ".", "b">>, <<"a", Backslash, ".", "b">>}

StoreValues ==
  { Num(0), Num(1), Null, EmptyObj, Obj1(ka, Num(2)), Obj1(kb, Obj1(ka, Num(4))) }

StoreStores ==
  { EmptyObj, Obj1(ka, Num(1)), Obj1(ka, Num(0)), Obj1(ka, EmptyObj),
    Obj1(ka, Obj1(kb, Num(5))), Obj2(ka, Obj1(kb, Num(5)), kb, Num(6)),
    Obj1(ka, Obj2(ka, Num(7), kb, Obj1(ka, Num(8)))), Obj1(ka, Null) }

\* ------------------------------------------------------------------ state
VARIABLES
  main_settings,      \* [_storage, _ready] of the Settings of the main process
  listeners,          \* Main.js: the array of registered senders
  page,               \* per endpoint: "none", "loaded", "unloaded", "closed"
  renderer_settings,  \* per endpoint: [_storage, _ready] of the page's Settings
  toMain,             \* per endpoint: messages sent with ipcRenderer.send, in order
  toRenderer,         \* per endpoint: messages sent with listener.send, in order
  events,             \* number of page events so far, of all endpoints
  removed,            \* per endpoint: its page has sent configurator-remove-listener
  ncalls,             \* number of public set/unset calls made so far, by all callers
  unsent,             \* per endpoint: public set/unset calls made by its caller minus
                      \* the configurator-set/-unset messages the endpoint has sent
  last,               \* the public call made in the last step and the events it
                      \* emitted, NoCall otherwise
  disk,               \* the files: settings_file, the directory settings_backup
  proc,               \* Main.js: where the main process is, isWriting, forceQuit,
                      \* and whether file_watcher watches
  cycles,             \* the write cycles in flight (writeSettings calls whose
                      \* last callback has not run), oldest first
  clock,              \* the hour of new Date()
  quits,              \* number of 'before-quit' events the host has emitted by itself
  fired,              \* number of times the callback given to writeSettings has run
  waiters,            \* per endpoint: the listeners that promises calls registered with
                      \* ipcRenderer.once('configurator-master-set'), in order, each
                      \* the index of its promise
  promises            \* per endpoint: the promises that promises calls of the page
                      \* returned, in the order of the calls

fileVars == <<disk, proc, cycles, clock, quits, fired>>

promVars == <<waiters, promises>>

replVars == <<listeners, page, renderer_settings, toMain, toRenderer, events, removed,
              unsent, promVars>>

vars == <<main_settings, listeners, page, renderer_settings, toMain, toRenderer,
          events, removed, ncalls, unsent, last, fileVars, promVars>>

Message(type, key, value, is_default) ==
  [type |-> type, key |-> key, value |-> value, is_default |-> is_default]

Bare(type) == Message(type, Undefined, Undefined, FALSE)

NoCall == [who |-> "", op |-> "", key |-> Undefined, value |-> Undefined,
           is_default |-> FALSE, ret |-> "", emits |-> <<>>]

\* r is what set / unset returned: emits is the sequence of the events the
\* call emitted on the Settings object, in order
Call(who, op, key, value, is_default, ret, r) ==
  [who |-> who, op |-> op, key |-> key, value |-> value, is_default |-> is_default,
   ret |-> ret, emits |-> IF r.emitted THEN <<r.arg>> ELSE <<>>]

NewSettings == [_storage |-> EmptyObj, _ready |-> FALSE]

RECURSIVE Count(_, _)
Count(e, seq) ==
  IF seq = <<>> THEN 0 ELSE (IF Head(seq) = e THEN 1 ELSE 0) + Count(e, Tail(seq))

\* mutant of SendToListeners: only listeners[0] is sent the message
SendToFirstListener(lst, msg, queues) ==
  [e \in Endpoints |-> IF lst # <<>> /\ lst[1] = e THEN Append(queues[e], msg) ELSE queues[e]]

\* listeners.forEach(listener => listener.send(channel, arg)): one message per
\* entry of the array, appended to the queue of that entry's endpoint
SendToListeners(lst, msg, queues) ==
  [e \in Endpoints |-> queues[e] \o [i \in 1..Count(e, lst) |-> msg]]

\* ------------------------------------------------------------------ files
\* A file of the disk: there is none (ENOENT), one that cannot be read or
\* whose text JSON.parse rejects, or one whose text is the JSON of the object v
NoFile == [kind |-> "none", v |-> EmptyObj]

BadFile == [kind |-> "bad", v |-> EmptyObj]

Json(v) == [kind |-> "json", v |-> v]

\* the names of the backups (new Date().toISOString().split(':')[0]), as hours
Hours == 1..MaxHour

\* JSON.parse(JSON.stringify(v)): a Number wrapper object is written as its
\* number, its own properties are not written
RECURSIVE JSONstringify(_)
JSONstringify(v) ==
  IF v.t = "box" THEN Num(v.n)
  ELSE IF v.t = "map" THEN Map([k \in DOMAIN v.m |-> JSONstringify(v.m[k])])
  ELSE v

\* fs.readdirSync(settings_backup).sort(): the names of the files, ascending
RECURSIVE SortedNames(_, _)
SortedNames(backups, h) ==
  IF h > MaxHour THEN <<>>
  ELSE (IF backups[h].kind # "none" THEN <<h>> ELSE <<>>) \o SortedNames(backups, h + 1)

\* the loop of readSettings over backup_files, from index i down to 0: the
\* first file that is read and parsed is _set and ends the loop; when none
\* is, _set({})
RECURSIVE TryBackups(_, _, _, _)
TryBackups(storage, backups, backup_files, i) ==
  IF i < 1 THEN _set(storage, Val(EmptyObj), Undefined, FALSE).storage
  ELSE IF backups[backup_files[i]].kind = "json"
       THEN _set(storage, Val(backups[backup_files[i]].v), Undefined, FALSE).storage
  ELSE TryBackups(storage, backups, backup_files, i - 1)

\* readSettings() on a new Settings: the Settings after it, and threw when
\* fs.readdirSync threw out of the catch block (settings_backup is no
\* directory that can be read)
readSettings(settings, d) ==
  IF d.settings_file.kind = "json"
  THEN [settings |-> [_storage |-> _set(settings._storage, Val(d.settings_file.v),
                                        Undefined, FALSE).storage,
                      _ready |-> TRUE],
        threw |-> FALSE]
  ELSE IF d.settings_file.kind = "none"
  THEN [settings |-> settings, threw |-> FALSE]
  ELSE IF ~d.backup_dir
  THEN [settings |-> settings, threw |-> TRUE]
  ELSE [settings |-> [_storage |-> TryBackups(settings._storage, d.backups,
                                              SortedNames(d.backups, 1),
                                              Len(SortedNames(d.backups, 1))),
                      _ready |-> TRUE],
        threw |-> FALSE]

\* enableWatchSettings(): fs.watch throws when there is no settings file, and
\* file_watcher is then null
enableWatchSettings(d) == d.settings_file.kind # "none"

\* SpecFile: what the disk holds when the main process starts
FileObjA == Obj1(kx, Num(1))

FileObjB == Obj1(kx, Num(2))

FileObjC == Obj1(km, Obj1(kb, Num(2)))

Disks ==
  { [settings_file |-> f, backup_dir |-> b, backups |-> [h \in Hours |-> NoFile]] :
      f \in {NoFile, BadFile, Json(FileObjA)}, b \in BOOLEAN }
  \cup
  { [settings_file |-> f, backup_dir |-> TRUE, backups |-> bs] :
      f \in {NoFile, BadFile, Json(FileObjA)},
      bs \in { g \in [Hours -> {NoFile, BadFile, Json(FileObjB), Json(FileObjC)}] :
                 \A h \in Hours :
                   g[h].kind = "json" =>
                     g[h].v = IF h = 1 THEN FileObjB ELSE FileObjC } }

InitWith(stores) ==
  /\ main_settings \in {[_storage |-> st, _ready |-> st # EmptyObj] : st \in stores}
  /\ listeners = <<>>
  /\ page = [e \in Endpoints |-> "none"]
  /\ renderer_settings = [e \in Endpoints |-> NewSettings]
  /\ toMain = [e \in Endpoints |-> <<>>]
  /\ toRenderer = [e \in Endpoints |-> <<>>]
  /\ events = 0
  /\ removed = [e \in Endpoints |-> FALSE]
  /\ ncalls = 0
  /\ unsent = [e \in Endpoints |-> 0]
  /\ last = NoCall
  /\ disk = [settings_file |-> IF main_settings._storage = EmptyObj THEN NoFile
                                ELSE Json(main_settings._storage),
             backup_dir |-> TRUE, backups |-> [h \in Hours |-> NoFile]]
  /\ proc = [pc |-> "running", isWriting |-> FALSE, forceQuit |-> FALSE,
             watching |-> main_settings._storage # EmptyObj]
  /\ cycles = <<>>
  /\ clock = 1
  /\ quits = 0
  /\ fired = 0
  /\ waiters = [e \in Endpoints |-> <<>>]
  /\ promises = [e \in Endpoints |-> <<>>]

Init == InitWith(ReplStores)

\* ------------------------------------------------------------------ Main.js
\* code of the main process calls main_settings.set(key, value, is_default);
\* the 'set' listener of Main.js sends the emitted argument to every listener
MainSet(key, value, is_default) ==
  LET r == set(main_settings._storage, key, value, is_default)
  IN  /\ main_settings' = [main_settings EXCEPT !._storage = r.storage]
      /\ toRenderer' = IF r.emitted
                       THEN SendToListeners(listeners,
                              Message("configurator-master-set", r.arg.key, r.arg.value,
                                      r.arg.is_default), toRenderer)
                       ELSE toRenderer
      /\ ncalls' = ncalls + 1
      /\ last' = Call(Main, "set", key, value, is_default, IF r.threw THEN "throw" ELSE "ok", r)
      /\ UNCHANGED fileVars /\ UNCHANGED promVars /\ UNCHANGED <<listeners, page, renderer_settings, toMain, events, removed, unsent>>

\* code of the main process calls main_settings.unset(key)
MainUnset(key) ==
  LET r == unset(main_settings._storage, key)
  IN  /\ main_settings' = [main_settings EXCEPT !._storage = r.storage]
      /\ toRenderer' = IF r.emitted
                       THEN SendToListeners(listeners,
                              Message("configurator-master-unset", r.arg.key, Undefined, FALSE),
                              toRenderer)
                       ELSE toRenderer
      /\ ncalls' = ncalls + 1
      /\ last' = Call(Main, "unset", Str(key), Undefined, FALSE, r.ret, r)
      /\ UNCHANGED fileVars /\ UNCHANGED promVars /\ UNCHANGED <<listeners, page, renderer_settings, toMain, events, removed, unsent>>

\* the next message of endpoint e that ipcMain hands to a handler
Incoming(e, type) == toMain[e] # <<>> /\ Head(toMain[e]).type = type

\* mutant of OnAddListener: the snapshot is sent, the sender is not pushed
OnAddListenerNoPush(e) ==
  /\ Incoming(e, "configurator-add-listener")
  /\ toMain' = [toMain EXCEPT ![e] = Tail(@)]
  /\ toRenderer' = [toRenderer EXCEPT ![e] =
       Append(@, Message("configurator-master-set", Val(main_settings._storage), Undefined, FALSE))]
  /\ last' = NoCall
  /\ UNCHANGED fileVars /\ UNCHANGED promVars /\ UNCHANGED <<main_settings, listeners, page, renderer_settings, events, removed, ncalls,
                 unsent>>

\* ipcMain.on('configurator-add-listener')
OnAddListener(e) ==
  /\ Incoming(e, "configurator-add-listener")
  /\ toMain' = [toMain EXCEPT ![e] = Tail(@)]
  /\ listeners' = Append(listeners, e)
  /\ toRenderer' = [toRenderer EXCEPT ![e] =
       Append(@, Message("configurator-master-set", Val(main_settings._storage), Undefined, FALSE))]
  /\ last' = NoCall
  /\ UNCHANGED fileVars /\ UNCHANGED promVars /\ UNCHANGED <<main_settings, page, renderer_settings, events, removed, ncalls, unsent>>

\* mutant of OnRemoveListener: the filter keeps the sender and drops the others
OnRemoveListenerInverted(e) ==
  /\ Incoming(e, "configurator-remove-listener")
  /\ toMain' = [toMain EXCEPT ![e] = Tail(@)]
  /\ listeners' = SelectSeq(listeners, LAMBDA item : item = e)
  /\ last' = NoCall
  /\ UNCHANGED fileVars /\ UNCHANGED promVars /\ UNCHANGED <<main_settings, page, renderer_settings, toRenderer, events, removed, ncalls,
                 unsent>>

\* ipcMain.on('configurator-remove-listener')
OnRemoveListener(e) ==
  /\ Incoming(e, "configurator-remove-listener")
  /\ toMain' = [toMain EXCEPT ![e] = Tail(@)]
  /\ listeners' = SelectSeq(listeners, LAMBDA item : item # e)
  /\ last' = NoCall
  /\ UNCHANGED fileVars /\ UNCHANGED promVars /\ UNCHANGED <<main_settings, page, renderer_settings, toRenderer, events, removed, ncalls, unsent>>

\* ipcMain.on('configurator-set'): main_settings.set(arg.key, arg.value, arg.is_default)
OnConfiguratorSet(e) ==
  /\ Incoming(e, "configurator-set")
  /\ LET arg == Head(toMain[e])
         r   == set(main_settings._storage, arg.key, arg.value, arg.is_default)
     IN  /\ main_settings' = [main_settings EXCEPT !._storage = r.storage]
         /\ toRenderer' = IF r.emitted
                          THEN SendToListeners(listeners,
                                 Message("configurator-master-set", r.arg.key, r.arg.value,
                                         r.arg.is_default), toRenderer)
                          ELSE toRenderer
  /\ toMain' = [toMain EXCEPT ![e] = Tail(@)]
  /\ last' = NoCall
  /\ UNCHANGED fileVars /\ UNCHANGED promVars /\ UNCHANGED <<listeners, page, renderer_settings, events, removed, ncalls, unsent>>

\* ipcMain.on('configurator-unset'): main_settings.unset(arg.key)
OnConfiguratorUnset(e) ==
  /\ Incoming(e, "configurator-unset")
  /\ LET arg == Head(toMain[e])
         r   == unset(main_settings._storage, arg.key.s)
     IN  /\ main_settings' = [main_settings EXCEPT !._storage = r.storage]
         /\ toRenderer' = IF r.emitted
                          THEN SendToListeners(listeners,
                                 Message("configurator-master-unset", r.arg.key, Undefined, FALSE),
                                 toRenderer)
                          ELSE toRenderer
  /\ toMain' = [toMain EXCEPT ![e] = Tail(@)]
  /\ last' = NoCall
  /\ UNCHANGED fileVars /\ UNCHANGED promVars /\ UNCHANGED <<listeners, page, renderer_settings, events, removed, ncalls, unsent>>

\* ------------------------------------------------------------------ Main.js: files
\* createSettings reaches `readSettings(); enableWatchSettings(); return
\* main_settings`: the module is loaded, or its loading fails with the exception
ReadSettings ==
  /\ proc.pc = "start"
  /\ LET r == readSettings(main_settings, disk)
     IN  /\ main_settings' = r.settings
         /\ proc' = IF r.threw THEN [proc EXCEPT !.pc = "failed"]
                    ELSE [proc EXCEPT !.pc = "running",
                                      !.watching = enableWatchSettings(disk)]
  /\ last' = NoCall
  /\ UNCHANGED <<replVars, ncalls, disk, cycles, clock, quits, fired>>

\* an hour passes
Tick ==
  /\ clock < MaxHour
  /\ clock' = clock + 1
  /\ last' = NoCall
  /\ UNCHANGED <<main_settings, replVars, ncalls, disk, proc, cycles, quits, fired>>

\* mutant of Deferred: no 'before-quit' is prevented
DeferredNever(p) == FALSE

\* the 'before-quit' listener: `if (!forceQuit)` prevents the quit and calls writeSettings
Deferred(p) == ~p.forceQuit

\* mutant of Dropped: writeSettings has no guard
DroppedNever(p) == FALSE

\* writeSettings: `if (isWriting) return`
Dropped(p) == p.isWriting

\* the write cycle that writeSettings starts: fs.access(backup_path) is
\* pending.  old_primary and had_backup record the settings file and whether
\* the backup of the hour existed when the cycle started.
NewCycle ==
  [pc |-> "access", backup_path |-> clock, data |-> EmptyObj,
   old_primary |-> disk.settings_file,
   had_backup |-> disk.backup_dir /\ disk.backups[clock].kind # "none"]

\* the host emits 'before-quit' (the user or the system asks the application to quit)
BeforeQuit ==
  /\ proc.pc = "running"
  /\ quits' = quits + 1
  /\ IF ~Deferred(proc)
     THEN proc' = [proc EXCEPT !.pc = "terminated"] /\ UNCHANGED cycles
     ELSE IF Dropped(proc)
     THEN UNCHANGED <<proc, cycles>>
     ELSE /\ proc' = [proc EXCEPT !.isWriting = TRUE, !.watching = FALSE]
          /\ cycles' = Append(cycles, NewCycle)
  /\ last' = NoCall
  /\ UNCHANGED <<main_settings, replVars, ncalls, disk, clock, fired>>

\* cycles without the i-th / with the i-th replaced
Without(seq, i) == SubSeq(seq, 1, i - 1) \o SubSeq(seq, i + 1, Len(seq))

\* the callback of fs.access: when the backup of the hour cannot be accessed the
\* settings are written at once, when it can the settings file is renamed first
OnAccess(i) ==
  /\ cycles[i].pc = "access"
  /\ cycles' = [cycles EXCEPT ![i] =
       IF disk.backup_dir /\ disk.backups[cycles[i].backup_path].kind # "none"
       THEN [@ EXCEPT !.pc = "rename"]
       ELSE [@ EXCEPT !.pc = "write", !.data = JSONstringify(main_settings._storage)]]
  /\ last' = NoCall
  /\ UNCHANGED <<main_settings, replVars, ncalls, disk, proc, clock, quits, fired>>

\* the disk after fs.rename(settings_file, backup_path): with ok the settings
\* file replaces the backup; it fails when there is no settings file, and may
\* fail for any other reason, and then nothing is renamed
Renamed(d, backup_path, ok) ==
  IF ok /\ d.settings_file.kind # "none"
  THEN [d EXCEPT !.backups[backup_path] = d.settings_file, !.settings_file = NoFile]
  ELSE d

\* fs.rename is done and its callback, which does not look at err, calls
\* fs.writeFile
OnRename(i, ok) ==
  /\ cycles[i].pc = "rename"
  /\ disk' = Renamed(disk, cycles[i].backup_path, ok)
  /\ cycles' = [cycles EXCEPT ![i] =
       [@ EXCEPT !.pc = "write", !.data = JSONstringify(main_settings._storage)]]
  /\ last' = NoCall
  /\ UNCHANGED <<main_settings, replVars, ncalls, proc, clock, quits, fired>>

\* how fs.writeFile can end: the data is written; the file could not be opened
\* and is as it was; the file was truncated and the data is not all written
WriteOutcomes == {"written", "untouched", "partial"}

\* the disk after fs.writeFile(settings_file, data)
Written(d, data, outcome) ==
  IF outcome = "written" THEN [d EXCEPT !.settings_file = Json(data)]
  ELSE IF outcome = "partial" THEN [d EXCEPT !.settings_file = BadFile]
  ELSE d

\* mutant of AfterWriteFile: the callback returns on an error, before cb()
AfterWriteFileReturningOnError(p, d, outcome) ==
  IF outcome # "written" THEN [p EXCEPT !.isWriting = FALSE]
  ELSE [pc |-> IF Deferred([p EXCEPT !.forceQuit = TRUE]) THEN p.pc ELSE "terminated",
        isWriting |-> FALSE, forceQuit |-> TRUE, watching |-> enableWatchSettings(d)]

\* mutant of AfterWriteFile: isWriting is cleared only when the write succeeded
AfterWriteFileKeepingFlag(p, d, outcome) ==
  [pc |-> IF Deferred([p EXCEPT !.forceQuit = TRUE]) THEN p.pc ELSE "terminated",
   isWriting |-> outcome # "written", forceQuit |-> TRUE,
   watching |-> enableWatchSettings(d)]

\* the callback of fs.writeFile, which has no err parameter: cb() sets
\* forceQuit and calls app.quit(), whose 'before-quit' the listener lets pass;
\* then enableWatchSettings() and isWriting = false.  p is the process, d the
\* disk after the write.
AfterWriteFile(p, d, outcome) ==
  [pc |-> IF Deferred([p EXCEPT !.forceQuit = TRUE]) THEN p.pc ELSE "terminated",
   isWriting |-> FALSE, forceQuit |-> TRUE, watching |-> enableWatchSettings(d)]

\* fs.writeFile is done and its callback runs
OnWriteFile(i, outcome) ==
  /\ cycles[i].pc = "write"
  /\ disk' = Written(disk, cycles[i].data, outcome)
  /\ cycles' = Without(cycles, i)
  /\ proc' = AfterWriteFile(proc, disk', outcome)
  /\ fired' = IF proc'.forceQuit THEN fired + 1 ELSE fired   \* cb() has run
  /\ last' = NoCall
  /\ UNCHANGED <<main_settings, replVars, ncalls, clock, quits>>

\* the main process stops (it is killed, the machine goes down) during a
\* write cycle.  A file operation in flight has then taken place or not, and
\* a write may have been cut short.
Stop(ok, outcome) ==
  /\ proc.pc = "running"
  /\ cycles # <<>>
  /\ proc' = [proc EXCEPT !.pc = "stopped"]
  /\ disk' = IF cycles[1].pc = "rename" THEN Renamed(disk, cycles[1].backup_path, ok)
             ELSE IF cycles[1].pc = "write" THEN Written(disk, cycles[1].data, outcome)
             ELSE disk
  /\ last' = NoCall
  /\ UNCHANGED <<main_settings, replVars, ncalls, cycles, clock, quits, fired>>

\* the application is started again: a new main process loads the module,
\* which makes a new Settings and calls readSettings and enableWatchSettings
Restart ==
  /\ proc.pc = "stopped"
  /\ LET r == readSettings(NewSettings, disk)
     IN  /\ main_settings' = r.settings
         /\ proc' = [pc |-> IF r.threw THEN "failed" ELSE "running",
                     isWriting |-> FALSE, forceQuit |-> FALSE,
                     watching |-> ~r.threw /\ enableWatchSettings(disk)]
  /\ cycles' = <<>>
  /\ fired' = 0
  /\ last' = NoCall
  /\ UNCHANGED <<replVars, ncalls, disk, clock, quits>>

\* the promise that a promises call returns: the call, whether it is pending,
\* resolved or rejected, the value it resolved with, and seq, the position of
\* its operation among the operations that promises calls of the page have
\* run on the Settings (0: not run)
Promise(op, key, value, is_default) ==
  [op |-> op, key |-> key, value |-> value, is_default |-> is_default,
   state |-> "pending", result |-> Undefined, seq |-> 0]

\* what a promises call gets of this._settings.set: r is what set returned.
\* sent is what the 'set' listener of Renderer.js sends to the main process,
\* calls the number of public set / unset calls this is.
SetOutcome(r) ==
  [storage |-> r.storage, threw |-> r.threw, result |-> Undefined,
   sent |-> IF r.emitted
            THEN <<Message("configurator-set", r.arg.key, r.arg.value, r.arg.is_default)>>
            ELSE <<>>,
   calls |-> 1]

\* what a promises call gets of this._settings.unset
UnsetOutcome(r) ==
  [storage |-> r.storage, threw |-> r.ret = "throw", result |-> Bool(r.ret = "true"),
   sent |-> IF r.emitted
            THEN <<Message("configurator-unset", r.arg.key, Undefined, FALSE)>>
            ELSE <<>>,
   calls |-> 1]

\* what a promises call gets of this._settings.get
GetOutcome(storage, r) ==
  [storage |-> storage, threw |-> r.kind = "throw", result |-> Val(r.v),
   sent |-> <<>>, calls |-> 0]

\* what a promises call gets of this._settings.has: r is what _getStoragePath
\* returned
HasOutcome(storage, r) ==
  [storage |-> storage, threw |-> r.status = "throw", result |-> Bool(r.status = "ok"),
   sent |-> <<>>, calls |-> 0]

\* the operation of a promises call, run on the Settings whose storage is
\* storage: this._settings.set / unset / get / has
Perform(storage, p) ==
  IF p.op = "set" THEN SetOutcome(set(storage, Str(p.key), p.value, p.is_default))
  ELSE IF p.op = "unset" THEN UnsetOutcome(unset(storage, p.key))
  ELSE IF p.op = "get" THEN GetOutcome(storage, get(storage, p.key))
  ELSE HasOutcome(storage, _getStoragePath(storage, p.key, FALSE))

\* how many operations promises calls have run
Performed(ps) == Cardinality({i \in DOMAIN ps : ps[i].seq > 0})

\* ipcRenderer emits 'configurator-master-set' to the listeners registered
\* with once, after the listener of Renderer.js: each is removed and called in
\* the order of registration, runs its operation and resolves its promise.
\* Resolve is one listener, whose operation had the outcome x: an operation
\* that throws ends the emit, its promise is never settled, and the listeners
\* after it stay registered.
RECURSIVE RunWaiters(_, _, _, _, _)
RECURSIVE Resolve(_, _, _, _, _)
Resolve(x, ws, ps, sent, calls) ==
  IF x.threw
  THEN [storage |-> x.storage, waiters |-> Tail(ws),
        promises |-> [ps EXCEPT ![Head(ws)].seq = Performed(ps) + 1],
        sent |-> sent \o x.sent, calls |-> calls + x.calls]
  ELSE RunWaiters(x.storage, Tail(ws),
                  [ps EXCEPT ![Head(ws)].seq = Performed(ps) + 1,
                             ![Head(ws)].state = "resolved",
                             ![Head(ws)].result = x.result],
                  sent \o x.sent, calls + x.calls)

RunWaiters(storage, ws, ps, sent, calls) ==
  IF ws = <<>>
  THEN [storage |-> storage, waiters |-> ws, promises |-> ps, sent |-> sent,
        calls |-> calls]
  ELSE Resolve(Perform(storage, ps[Head(ws)]), ws, ps, sent, calls)

\* ipcRenderer emits 'configurator-master-set': r is what _set returned in the
\* listener of Renderer.js, which is called first.  When _set throws, the emit
\* ends there and no other listener is called.
Emit(r, ws, ps) ==
  IF r.threw
  THEN [storage |-> r.storage, waiters |-> ws, promises |-> ps, sent |-> <<>>,
        calls |-> 0]
  ELSE RunWaiters(r.storage, ws, ps, <<>>, 0)

\* ------------------------------------------------------------------ Renderer.js
\* a page of endpoint e loads the module: createSettings makes a new Settings
\* and sends 'configurator-add-listener'
Load(e) ==
  /\ page[e] # "loaded"
  /\ page' = [page EXCEPT ![e] = "loaded"]
  /\ removed' = [removed EXCEPT ![e] = FALSE]
  /\ events' = events + 1
  /\ renderer_settings' = [renderer_settings EXCEPT ![e] = NewSettings]
  /\ toMain' = [toMain EXCEPT ![e] = Append(@, Bare("configurator-add-listener"))]
  /\ waiters' = [waiters EXCEPT ![e] = <<>>]
  /\ promises' = [promises EXCEPT ![e] = <<>>]
  /\ last' = NoCall
  /\ UNCHANGED fileVars /\ UNCHANGED <<main_settings, listeners, toRenderer, ncalls, unsent>>

\* the 'beforeunload' listener sends 'configurator-remove-listener'; the page
\* then goes away (leaves) or the unload is cancelled and the page lives on
BeforeUnload(e, leaves) ==
  /\ page[e] = "loaded"
  /\ toMain' = [toMain EXCEPT ![e] = Append(@, Bare("configurator-remove-listener"))]
  /\ page' = [page EXCEPT ![e] = IF leaves THEN "unloaded" ELSE "loaded"]
  /\ removed' = [removed EXCEPT ![e] = TRUE]
  /\ events' = events + 1
  /\ last' = NoCall
  /\ UNCHANGED fileVars /\ UNCHANGED promVars /\ UNCHANGED <<main_settings, listeners, renderer_settings, toRenderer, ncalls, unsent>>

\* the channel of endpoint e closes with no 'beforeunload' (the renderer
\* process is gone).  Main.js registers no handler for it: nothing of the main
\* process changes.
ChannelClosed(e) ==
  /\ page[e] = "loaded"
  /\ page' = [page EXCEPT ![e] = "closed"]
  /\ events' = events + 1
  /\ last' = NoCall
  /\ UNCHANGED fileVars /\ UNCHANGED promVars /\ UNCHANGED <<main_settings, listeners, renderer_settings, toMain, toRenderer, removed,
                 ncalls, unsent>>

\* the caller of the page calls renderer_settings.set(key, value, is_default);
\* the 'set' listener of Renderer.js sends the emitted argument to the main process
RendererSet(e, key, value, is_default) ==
  LET r == set(renderer_settings[e]._storage, key, value, is_default)
  IN  /\ page[e] = "loaded"
      /\ renderer_settings' = [renderer_settings EXCEPT ![e]._storage = r.storage]
      /\ toMain' = IF r.emitted
                   THEN [toMain EXCEPT ![e] =
                           Append(@, Message("configurator-set", r.arg.key, r.arg.value,
                                             r.arg.is_default))]
                   ELSE toMain
      /\ unsent' = [unsent EXCEPT ![e] = @ + 1 - (IF r.emitted THEN 1 ELSE 0)]
      /\ ncalls' = ncalls + 1
      /\ last' = Call(e, "set", key, value, is_default, IF r.threw THEN "throw" ELSE "ok", r)
      /\ UNCHANGED fileVars /\ UNCHANGED promVars /\ UNCHANGED <<main_settings, listeners, page, toRenderer, events, removed>>

\* the caller of the page calls renderer_settings.unset(key)
RendererUnset(e, key) ==
  LET r == unset(renderer_settings[e]._storage, key)
  IN  /\ page[e] = "loaded"
      /\ renderer_settings' = [renderer_settings EXCEPT ![e]._storage = r.storage]
      /\ toMain' = IF r.emitted
                   THEN [toMain EXCEPT ![e] =
                           Append(@, Message("configurator-unset", r.arg.key, Undefined, FALSE))]
                   ELSE toMain
      /\ unsent' = [unsent EXCEPT ![e] = @ + 1 - (IF r.emitted THEN 1 ELSE 0)]
      /\ ncalls' = ncalls + 1
      /\ last' = Call(e, "unset", Str(key), Undefined, FALSE, r.ret, r)
      /\ UNCHANGED fileVars /\ UNCHANGED promVars /\ UNCHANGED <<main_settings, listeners, page, toRenderer, events, removed>>

\* the next message that ipcRenderer hands to a handler of the page of e
Arriving(e, type) ==
  page[e] = "loaded" /\ toRenderer[e] # <<>> /\ Head(toRenderer[e]).type = type

\* mutant of OnMasterSet: the handler calls the public set, whose 'set' event
\* is sent back to the main process
OnMasterSetEmitting(e) ==
  /\ Arriving(e, "configurator-master-set")
  /\ LET arg == Head(toRenderer[e])
         r   == set(renderer_settings[e]._storage, arg.key, arg.value, arg.is_default)
     IN  /\ renderer_settings' = [renderer_settings EXCEPT ![e] =
                                    [_storage |-> r.storage, _ready |-> TRUE]]
         /\ toMain' = [toMain EXCEPT ![e] =
                         Append(@, Message("configurator-set", r.arg.key, r.arg.value,
                                           r.arg.is_default))]
  /\ unsent' = [unsent EXCEPT ![e] = @ - 1]
  /\ toRenderer' = [toRenderer EXCEPT ![e] = Tail(@)]
  /\ last' = NoCall
  /\ UNCHANGED fileVars /\ UNCHANGED promVars /\ UNCHANGED <<main_settings, listeners, page, events, removed, ncalls>>

\* the state of the page of e after ipcRenderer has emitted
\* 'configurator-master-set' with the outcome w
Emitted(e, w) ==
  /\ renderer_settings' = [renderer_settings EXCEPT ![e] =
                             [_storage |-> w.storage, _ready |-> TRUE]]
  /\ waiters' = [waiters EXCEPT ![e] = w.waiters]
  /\ promises' = [promises EXCEPT ![e] = w.promises]
  /\ toMain' = [toMain EXCEPT ![e] = @ \o w.sent]
  /\ unsent' = [unsent EXCEPT ![e] = @ + w.calls - Len(w.sent)]
  /\ ncalls' = ncalls + w.calls

\* ipcRenderer.on('configurator-master-set'): _ready = true, then _set (no
\* emit); then the listeners that promises calls registered with once
OnMasterSet(e) ==
  /\ Arriving(e, "configurator-master-set")
  /\ Emitted(e, Emit(_set(renderer_settings[e]._storage, Head(toRenderer[e]).key,
                          Head(toRenderer[e]).value, Head(toRenderer[e]).is_default),
                     waiters[e], promises[e]))
  /\ toRenderer' = [toRenderer EXCEPT ![e] = Tail(@)]
  /\ last' = NoCall
  /\ UNCHANGED fileVars /\ UNCHANGED <<main_settings, listeners, page, events, removed>>

\* ipcRenderer.on('configurator-master-unset'): _unset (no emit)
OnMasterUnset(e) ==
  /\ Arriving(e, "configurator-master-unset")
  /\ LET arg == Head(toRenderer[e])
         r   == _unset(renderer_settings[e]._storage, arg.key.s)
     IN  renderer_settings' = [renderer_settings EXCEPT ![e]._storage = r.storage]
  /\ toRenderer' = [toRenderer EXCEPT ![e] = Tail(@)]
  /\ last' = NoCall
  /\ UNCHANGED fileVars /\ UNCHANGED promVars /\ UNCHANGED <<main_settings, listeners, page, toMain, events, removed, ncalls, unsent>>

\* a message for an endpoint with no page that listens is handled by nobody
Discard(e) ==
  /\ page[e] # "loaded"
  /\ toRenderer[e] # <<>>
  /\ toRenderer' = [toRenderer EXCEPT ![e] = Tail(@)]
  /\ last' = NoCall
  /\ UNCHANGED fileVars /\ UNCHANGED promVars /\ UNCHANGED <<main_settings, listeners, page, renderer_settings, toMain, events, removed,
                 ncalls, unsent>>

\* the executor of the promise p runs the operation at once, with the outcome
\* x: the promise is resolved, or rejected when the operation threw
RunNow(e, p, x) ==
  /\ promises' = [promises EXCEPT ![e] =
                    Append(@, [p EXCEPT !.seq = Performed(promises[e]) + 1,
                                        !.state = IF x.threw THEN "rejected" ELSE "resolved",
                                        !.result = x.result])]
  /\ renderer_settings' = [renderer_settings EXCEPT ![e]._storage = x.storage]
  /\ toMain' = [toMain EXCEPT ![e] = @ \o x.sent]
  /\ unsent' = [unsent EXCEPT ![e] = @ + x.calls - Len(x.sent)]
  /\ ncalls' = ncalls + x.calls
  /\ UNCHANGED waiters

\* the executor of the promise p registers the operation with ipcRenderer.once
Wait(e, p) ==
  /\ waiters' = [waiters EXCEPT ![e] = Append(@, Len(promises[e]) + 1)]
  /\ promises' = [promises EXCEPT ![e] = Append(@, p)]
  /\ UNCHANGED <<renderer_settings, toMain, unsent, ncalls>>

\* the caller of the page calls promises.set / unset / get / has: with _ready
\* false the operation waits for 'configurator-master-set', else it runs in the
\* executor of the promise
PromiseCall(e, op, key, value, is_default) ==
  /\ page[e] = "loaded"
  /\ IF ~renderer_settings[e]._ready
     THEN Wait(e, Promise(op, key, value, is_default))
     ELSE RunNow(e, Promise(op, key, value, is_default),
                 Perform(renderer_settings[e]._storage, Promise(op, key, value, is_default)))
  /\ last' = NoCall
  /\ UNCHANGED fileVars /\ UNCHANGED <<main_settings, listeners, page, toRenderer, events, removed>>

\* ------------------------------------------------------------------ specifications
MainHandles(e) ==
  \/ OnAddListener(e)
  \/ OnRemoveListener(e)
  \/ OnConfiguratorSet(e)
  \/ OnConfiguratorUnset(e)

RendererHandles(e) ==
  \/ OnMasterSet(e)
  \/ OnMasterUnset(e)
  \/ Discard(e)

Next ==
  \/ \E c \in ReplSets : ncalls < MaxCalls /\ MainSet(c[1], c[2], c[3])
  \/ \E k \in ReplUnsets : ncalls < MaxCalls /\ MainUnset(k)
  \/ \E e \in Endpoints, c \in ReplSets :
       ncalls < MaxCalls /\ RendererSet(e, c[1], c[2], c[3])
  \/ \E e \in Endpoints, k \in ReplUnsets : ncalls < MaxCalls /\ RendererUnset(e, k)
  \/ \E e \in Endpoints : events < MaxPageEvents /\ Load(e)
  \/ \E e \in Endpoints, leaves \in BOOLEAN :
       events < MaxPageEvents /\ BeforeUnload(e, leaves)
  \/ \E e \in Endpoints : events < MaxPageEvents /\ ChannelClosed(e)
  \/ \E e \in Endpoints : MainHandles(e)
  \/ \E e \in Endpoints : RendererHandles(e)

\* the main process and the pages, with every event of a page's life
Spec == Init /\ [][Next]_vars

\* the main process and pages that load and stay: more calls, more values
SyncNext ==
  \/ \E c \in SyncSets : ncalls < MaxSyncCalls /\ MainSet(c[1], c[2], c[3])
  \/ \E k \in SyncUnsets : ncalls < MaxSyncCalls /\ MainUnset(k)
  \/ \E e \in Endpoints, c \in SyncSets :
       ncalls < MaxSyncCalls /\ RendererSet(e, c[1], c[2], c[3])
  \/ \E e \in Endpoints, k \in SyncUnsets : ncalls < MaxSyncCalls /\ RendererUnset(e, k)
  \/ \E e \in Endpoints : page[e] = "none" /\ Load(e)
  \/ \E e \in Endpoints : OnAddListener(e)
  \/ \E e \in Endpoints : OnConfiguratorSet(e)
  \/ \E e \in Endpoints : OnConfiguratorUnset(e)
  \/ \E e \in Endpoints : OnMasterSet(e)
  \/ \E e \in Endpoints : OnMasterUnset(e)

SpecSync == Init /\ [][SyncNext]_vars

\* one Settings object (that of the main process, nobody registered) and its
\* public calls, from every storage of StoreStores
StoreInit == InitWith(StoreStores)

StoreNext ==
  \/ \E k \in StoreKeys, v \in StoreValues, d \in BOOLEAN :
       ncalls < MaxStoreCalls /\ MainSet(Str(k), Val(v), d)
  \/ \E v \in StoreValues, d \in {Undefined, Bool(TRUE)} :
       ncalls < MaxStoreCalls /\ IsObject(v) /\ MainSet(Val(v), d, FALSE)
  \/ \E k \in StoreKeys : ncalls < MaxStoreCalls /\ MainUnset(k)

SpecStore == StoreInit /\ [][StoreNext]_vars

\* the promises calls of SpecPromises: (op, key, value, is_default)
PromiseOps ==
  { <<"get", kx, Undefined, FALSE>>,
    <<"has", kx, Undefined, FALSE>>,
    <<"set", kx, Val(Num(5)), FALSE>>,
    <<"unset", kx, Undefined, FALSE>>,
    <<"unset", <<>>, Undefined, FALSE>> }

\* the pages whose caller uses the promises interface
PromiseCallers == {"r1"}

PromisesNext ==
  \/ \E c \in ReplSets : ncalls < MaxCalls /\ MainSet(c[1], c[2], c[3])
  \/ \E e \in PromiseCallers, c \in PromiseOps :
       /\ Len(promises[e]) < MaxPromiseCalls
       /\ PromiseCall(e, c[1], c[2], c[3], c[4])
  \/ \E e \in Endpoints : page[e] = "none" /\ Load(e)
  \/ \E e \in Endpoints : OnAddListener(e)
  \/ \E e \in Endpoints : OnConfiguratorSet(e)
  \/ \E e \in Endpoints : OnConfiguratorUnset(e)
  \/ \E e \in Endpoints : OnMasterSet(e)
  \/ \E e \in Endpoints : OnMasterUnset(e)

\* pages that load and stay, whose callers use the promises interface
SpecPromises == Init /\ [][PromisesNext]_vars

\* the calls of SpecRace: plain sets of a number or of null on x
RaceSets ==
  { <<Str(kx), Val(Num(1)), FALSE>>, <<Str(kx), Val(Num(2)), FALSE>>,
    <<Str(kx), Val(Null), FALSE>> }

RaceNext ==
  \/ \E e \in Endpoints, c \in RaceSets :
       ncalls < MaxRaceCalls /\ RendererSet(e, c[1], c[2], c[3])
  \/ \E e \in Endpoints : page[e] = "none" /\ Load(e)
  \/ \E e \in Endpoints : OnAddListener(e)
  \/ \E e \in Endpoints : OnConfiguratorSet(e)
  \/ \E e \in Endpoints : OnMasterSet(e)

\* pages that load and stay, whose callers set the same key
SpecRace == Init /\ [][RaceNext]_vars

\* the main process alone with its files: loading, calls, quitting
FileInit ==
  /\ main_settings = NewSettings
  /\ listeners = <<>>
  /\ page = [e \in Endpoints |-> "none"]
  /\ renderer_settings = [e \in Endpoints |-> NewSettings]
  /\ toMain = [e \in Endpoints |-> <<>>]
  /\ toRenderer = [e \in Endpoints |-> <<>>]
  /\ events = 0
  /\ removed = [e \in Endpoints |-> FALSE]
  /\ ncalls = 0
  /\ unsent = [e \in Endpoints |-> 0]
  /\ last = NoCall
  /\ disk \in Disks
  /\ proc = [pc |-> "start", isWriting |-> FALSE, forceQuit |-> FALSE, watching |-> FALSE]
  /\ cycles = <<>>
  /\ clock = 1
  /\ quits = 0
  /\ fired = 0
  /\ waiters = [e \in Endpoints |-> <<>>]
  /\ promises = [e \in Endpoints |-> <<>>]

FileNext ==
  \/ ReadSettings
  \/ Tick
  \/ \E c \in ReplSets :
       proc.pc = "running" /\ ncalls < MaxFileCalls /\ MainSet(c[1], c[2], c[3])
  \/ \E k \in ReplUnsets : proc.pc = "running" /\ ncalls < MaxFileCalls /\ MainUnset(k)
  \/ quits < MaxQuits /\ BeforeQuit
  \/ \E i \in DOMAIN cycles : OnAccess(i)
  \/ \E i \in DOMAIN cycles, ok \in BOOLEAN : OnRename(i, ok)
  \/ \E i \in DOMAIN cycles, outcome \in WriteOutcomes : OnWriteFile(i, outcome)

SpecFile == FileInit /\ [][FileNext]_vars

\* Node calls back every file operation that was started
FileFairness ==
  /\ WF_vars(\E i \in DOMAIN cycles : OnAccess(i))
  /\ WF_vars(\E i \in DOMAIN cycles, ok \in BOOLEAN : OnRename(i, ok))
  /\ WF_vars(\E i \in DOMAIN cycles, outcome \in WriteOutcomes : OnWriteFile(i, outcome))

SpecFileLive == FileInit /\ [][FileNext]_vars /\ FileFairness

\* the main process with its files, stopping during a write cycle and started again
CrashNext ==
  \/ ReadSettings
  \/ \E c \in ReplSets :
       proc.pc = "running" /\ ncalls < MaxFileCalls /\ MainSet(c[1], c[2], c[3])
  \/ quits < MaxQuits /\ BeforeQuit
  \/ \E i \in DOMAIN cycles : proc.pc = "running" /\ OnAccess(i)
  \/ \E i \in DOMAIN cycles, ok \in BOOLEAN : proc.pc = "running" /\ OnRename(i, ok)
  \/ \E i \in DOMAIN cycles, outcome \in WriteOutcomes :
       proc.pc = "running" /\ OnWriteFile(i, outcome)
  \/ \E ok \in BOOLEAN, outcome \in WriteOutcomes : Stop(ok, outcome)
  \/ Restart

SpecCrash == FileInit /\ [][CrashNext]_vars

\* ------------------------------------------------------------------ steps
\* the endpoint is in the array of listeners
Registered(e) == \E i \in 1..Len(listeners) : listeners[i] = e

RegisteredNext(e) == \E i \in 1..Len(listeners') : listeners'[i] = e

\* this step is ipcMain handing the message of that type from e to its handler
MainTakes(e, type) == Incoming(e, type) /\ toMain'[e] = Tail(toMain[e])

\* this step takes the next message for endpoint e out of its channel
PageTakes(e) == toRenderer[e] # <<>> /\ toRenderer'[e] = Tail(toRenderer[e])

\* this step sends messages to endpoint e; Sent(e) is what it sends
Sends(e) ==
  /\ Len(toRenderer'[e]) > Len(toRenderer[e])
  /\ SubSeq(toRenderer'[e], 1, Len(toRenderer[e])) = toRenderer[e]

Sent(e) == SubSeq(toRenderer'[e], Len(toRenderer[e]) + 1, Len(toRenderer'[e]))

\* a message of a mutation (the snapshot of a registration carries an object as key)
IsIncrement(msg) == msg.key.t = "str"

\* the storage of a replica once the message has been applied to it
Applied(storage, msg) ==
  IF msg.type = "configurator-master-set"
  THEN _set(storage, msg.key, msg.value, msg.is_default).storage
  ELSE _unset(storage, msg.key.s).storage

\* no message is in flight
Quiescent == \A e \in Endpoints : toMain[e] = <<>> /\ toRenderer[e] = <<>>

\* ------------------------------------------------------------------ claims
\* C1 (as claimed): whenever no message is in flight, the storage of every
\* registered replica whose page is loaded equals the storage of the main process.
C1_EventualConsistency ==
  Quiescent =>
    \A e \in Endpoints :
      (Registered(e) /\ page[e] = "loaded") =>
        renderer_settings[e]._storage = main_settings._storage

\* C2: a page that takes a master message applies it to its storage and sends
\* nothing to the main process; an endpoint never has sent more
\* configurator-set/-unset messages than its caller has made public set/unset calls.
C2_LoopAvoidance ==
  /\ [](\A e \in Endpoints : unsent[e] >= 0)
  /\ [][\A e \in Endpoints :
          (PageTakes(e) /\ page[e] = "loaded") =>
            /\ toMain'[e] = toMain[e]
            /\ unsent'[e] = unsent[e]
            /\ renderer_settings'[e]._storage =
                 Applied(renderer_settings[e]._storage, Head(toRenderer[e]))]_vars

\* C2 witness: a replica has applied the master-set of a call made elsewhere
\* and has sent nothing
C2_Witness ==
  \E e \in Endpoints :
    /\ ncalls = 1 /\ Quiescent /\ unsent[e] = 0 /\ last = NoCall
    /\ page[e] = "loaded" /\ Registered(e)
    /\ main_settings._storage = Obj1(kx, Num(1))
    /\ renderer_settings[e]._storage = Obj1(kx, Num(1))

\* C3: the step in which the main process handles the registration of e leaves
\* e in the array of listeners and appends exactly one message to e's channel:
\* a master-set which the receiver's _set reads as key "" (the root) with the
\* whole storage of the main process, as it is in that step, as value.  The
\* channel keeps the order, so it is received before every later master message.
C3_SnapshotBootstrap ==
  [][\A e \in Endpoints :
       MainTakes(e, "configurator-add-listener") =>
         /\ RegisteredNext(e)
         /\ Sends(e)
         /\ Len(Sent(e)) = 1
         /\ LET m == Sent(e)[1]
                a == ShiftArgs(m.key, m.value, m.is_default)
            IN  /\ m.type = "configurator-master-set"
                /\ a.key = <<>>
                /\ a.value = Val(main_settings._storage)
                /\ ~a.is_default]_vars

\* C3 witness: a registered replica has received the snapshot of a non-empty storage
C3_Witness ==
  \E e \in Endpoints :
    /\ Registered(e) /\ renderer_settings[e]._ready /\ ncalls = 0
    /\ renderer_settings[e]._storage = Obj2(kx, Num(1), km, Obj1(kb, Num(2)))

\* the event a public call on the main process' Settings emits in this step:
\* a call of the main process' own code, or the handler of configurator-set /
\* configurator-unset
MainEvent ==
  IF ncalls' = ncalls + 1 /\ last'.who = Main /\ last'.op = "set"
  THEN LET r == set(main_settings._storage, last'.key, last'.value, last'.is_default)
       IN  [emitted |-> r.emitted, type |-> "configurator-master-set", key |-> r.arg.key]
  ELSE IF ncalls' = ncalls + 1 /\ last'.who = Main /\ last'.op = "unset"
  THEN LET r == unset(main_settings._storage, last'.key.s)
       IN  [emitted |-> r.emitted, type |-> "configurator-master-unset", key |-> r.arg.key]
  ELSE IF \E e \in Endpoints : MainTakes(e, "configurator-set")
  THEN LET e == CHOOSE f \in Endpoints : MainTakes(f, "configurator-set")
           m == Head(toMain[e])
           r == set(main_settings._storage, m.key, m.value, m.is_default)
       IN  [emitted |-> r.emitted, type |-> "configurator-master-set", key |-> r.arg.key]
  ELSE IF \E e \in Endpoints : MainTakes(e, "configurator-unset")
  THEN LET e == CHOOSE f \in Endpoints : MainTakes(f, "configurator-unset")
           r == unset(main_settings._storage, Head(toMain[e]).key.s)
       IN  [emitted |-> r.emitted, type |-> "configurator-master-unset", key |-> r.arg.key]
  ELSE [emitted |-> FALSE, type |-> "", key |-> Undefined]

\* every public set and every successful unset on the main process is sent, as
\* master-set / master-unset with the same key, to every registered endpoint
FanOut ==
  MainEvent.emitted =>
    \A e \in Endpoints :
      Registered(e) =>
        /\ Sends(e)
        /\ \A i \in 1..Len(Sent(e)) :
             Sent(e)[i].type = MainEvent.type /\ Sent(e)[i].key = MainEvent.key

\* C4 (as claimed): fan-out, and every such message is applied by the replica
\* it was sent to.
C4_FanOutOriginal ==
  [][/\ FanOut
     /\ \A e \in Endpoints :
          (PageTakes(e) /\ IsIncrement(Head(toRenderer[e]))) =>
            /\ page[e] = "loaded"
            /\ renderer_settings'[e]._storage =
                 Applied(renderer_settings[e]._storage, Head(toRenderer[e]))]_vars

\* C4 (amended): fan-out, and every such message that reaches a replica whose
\* page is still loaded is applied by it to its storage.
C4_FanOut ==
  [][/\ FanOut
     /\ \A e \in Endpoints :
          (PageTakes(e) /\ IsIncrement(Head(toRenderer[e])) /\ page[e] = "loaded") =>
            renderer_settings'[e]._storage =
              Applied(renderer_settings[e]._storage, Head(toRenderer[e]))]_vars

\* C4 witness: a set made on an empty storage has reached the main process
\* and both registered replicas
C4_Witness ==
  /\ ncalls = 1 /\ Quiescent /\ main_settings._storage = Obj1(kx, Num(1))
  /\ \A e \in Endpoints :
       /\ Registered(e) /\ page[e] = "loaded"
       /\ renderer_settings[e]._storage = Obj1(kx, Num(1))

\* C5: handling configurator-remove-listener from e leaves e out of the array
\* of listeners and every other endpoint in it as before (nothing changes when
\* e was not in it); only handling configurator-add-listener from e puts e
\* in; and no step sends a message to an endpoint that is not in the array.
\* Hence from the handling of its unregistration to that of its next
\* registration an endpoint is sent nothing.
C5_Unregister ==
  [][\A e \in Endpoints :
       /\ MainTakes(e, "configurator-remove-listener") =>
            /\ ~RegisteredNext(e)
            /\ \A f \in Endpoints \ {e} : RegisteredNext(f) <=> Registered(f)
            /\ ~Registered(e) => listeners' = listeners
       /\ (~Registered(e) /\ RegisteredNext(e)) => MainTakes(e, "configurator-add-listener")
       /\ Len(toRenderer'[e]) > Len(toRenderer[e]) => RegisteredNext(e)]_vars

\* C5 witness: an unregistered endpoint has missed a mutation of the main
\* process, and a second configurator-remove-listener from it is about to be handled
C5_Witness ==
  \E e \in Endpoints :
    /\ ~Registered(e) /\ Incoming(e, "configurator-remove-listener")
    /\ renderer_settings[e]._ready /\ toRenderer[e] = <<>> /\ ncalls = 1
    /\ renderer_settings[e]._storage = EmptyObj
    /\ main_settings._storage = Obj1(kx, Num(1))

\* C6 (as claimed): when the channel of a registered endpoint closes and its
\* page has sent no configurator-remove-listener, the endpoint is no longer in
\* the array of listeners.
C6_ChannelClosure ==
  [][\A e \in Endpoints :
       (page[e] = "loaded" /\ page'[e] = "closed" /\ Registered(e) /\ ~removed[e]) =>
         ~RegisteredNext(e)]_vars

\* ------------------------------------------------------------------ store calls
\* this step is a public set / unset call on the Settings of the main process
SetCall == ncalls' = ncalls + 1 /\ last'.who = Main /\ last'.op = "set"

UnsetCall == ncalls' = ncalls + 1 /\ last'.who = Main /\ last'.op = "unset"

\* key, value and is_default of the set call of this step, as set reads them
SetArgs == ShiftArgs(last'.key, last'.value, last'.is_default)

\* the value of the set call is a SCALAR (a number or null) / a MAP
ScalarValue == SetArgs.value.t = "val" /\ SetArgs.value.v.t \in {"num", "null"}

MapValue == SetArgs.value.t = "val" /\ SetArgs.value.v.t = "map"

\* the value at a path of property names, when there is one
RECURSIVE Find(_, _)
Find(v, path) ==
  IF path = <<>> THEN [found |-> TRUE, v |-> v]
  ELSE IF HasProp(v, Head(path)) THEN Find(v.m[Head(path)], Tail(path))
  ELSE [found |-> FALSE, v |-> EmptyObj]

\* the paths, from v, of the SCALARs (numbers and nulls) held in v
RECURSIVE LeafPaths(_)
LeafPaths(v) ==
  IF v.t \in {"num", "null"} THEN {<<>>}
  ELSE UNION {{<<k>> \o p : p \in LeafPaths(v.m[k])} : k \in DOMAIN v.m}

\* every proper prefix of the path of the key is absent or holds an object
PathOpen(root, key) ==
  \A i \in 1..(Len(Hierarchy(key)) - 1) :
    LET f == Find(root, SubSeq(Hierarchy(key), 1, i))
    IN  f.found => HoldsProps(f.v)

\* C7 (as claimed): a default set on a key K that holds a value V leaves every
\* leaf of V as it was: after the call the path of each SCALAR held in V still
\* leads to that SCALAR, whether V and the value of the call are MAPs or SCALARs.
C7_DefaultMergeLaw ==
  [][(SetCall /\ SetArgs.is_default /\ has(main_settings._storage, SetArgs.key)) =>
       LET V == get(main_settings._storage, SetArgs.key).v
           W == get(main_settings'._storage, SetArgs.key)
       IN  /\ W.kind = "value"
           /\ \A p \in LeafPaths(V) :
                Find(W.v, p) = [found |-> TRUE, v |-> GetAt(V, p)]]_vars

\* C8 (as claimed): a default set of a SCALAR s on a non-empty key K that
\* holds no value stores s: get(K) returns s after the call.
C8_DefaultFillsAbsent ==
  [][(/\ SetCall /\ SetArgs.is_default /\ ScalarValue
      /\ SetArgs.key # <<>>
      /\ ~has(main_settings._storage, SetArgs.key)) =>
       /\ has(main_settings'._storage, SetArgs.key)
       /\ get(main_settings'._storage, SetArgs.key) =
            [kind |-> "value", v |-> SetArgs.value.v]]_vars

\* the one-level merge of a plain set of the object D on a key that holds the
\* map V: the result W is a map whose keys are those of V and of D, every key
\* of D holds the value it has in D, every other key the value it has in V
OneLevelMerge(V, D, W) ==
  /\ W.t = "map"
  /\ DOMAIN W.m = (DOMAIN V.m) \cup (DOMAIN D.m)
  /\ \A k \in DOMAIN D.m : W.m[k] = D.m[k]
  /\ \A k \in (DOMAIN V.m) \ (DOMAIN D.m) : W.m[k] = V.m[k]

\* a plain set of a MAP over a MAP: get(K) returns the one-level merge
PlainSetMerges ==
  (/\ SetCall /\ ~SetArgs.is_default /\ MapValue
   /\ has(main_settings._storage, SetArgs.key)
   /\ get(main_settings._storage, SetArgs.key).v.t = "map") =>
    LET W == get(main_settings'._storage, SetArgs.key)
    IN  /\ W.kind = "value"
        /\ OneLevelMerge(get(main_settings._storage, SetArgs.key).v, SetArgs.value.v, W.v)

\* C9 (as claimed, for the keys the spec defines set on: a non-empty key no
\* proper prefix of which holds a SCALAR): a plain set of a SCALAR D (a number
\* or null) on K makes get(K) return D whatever was at K; a plain set of a MAP
\* over a MAP (the root included) gives the one-level merge.
C9_PlainSet ==
  [][/\ (/\ SetCall /\ ~SetArgs.is_default /\ ScalarValue
         /\ SetArgs.key # <<>>
         /\ PathOpen(main_settings._storage, SetArgs.key)) =>
          /\ has(main_settings'._storage, SetArgs.key)
          /\ get(main_settings'._storage, SetArgs.key) =
               [kind |-> "value", v |-> SetArgs.value.v]
     /\ PlainSetMerges]_vars

\* C10 (as claimed): unset with the empty key reports true and leaves a
\* storage of which get of the empty key returns {}, whatever it held before.
C10_UnsetRootClears ==
  [][(UnsetCall /\ last'.key = Str(<<>>)) =>
       /\ last'.ret = "true"
       /\ get(main_settings'._storage, <<>>) = [kind |-> "value", v |-> EmptyObj]]_vars

\* the property names from the root to every value held in v, v itself included
RECURSIVE NodePaths(_)
NodePaths(v) ==
  {<<>>} \cup UNION {{<<k>> \o p : p \in NodePaths(v.m[k])} : k \in DOMAIN v.m}

IsPrefix(h, p) == Len(h) <= Len(p) /\ SubSeq(p, 1, Len(h)) = h

\* the path of the key leads to a value / a proper prefix of it leads to null
Exists(root, key) == Hierarchy(key) # <<>> /\ Find(root, Hierarchy(key)).found

NullPrefix(root, key) ==
  \E i \in 1..(Len(Hierarchy(key)) - 1) :
    Find(root, SubSeq(Hierarchy(key), 1, i)) = [found |-> TRUE, v |-> Null]

\* unset(K) has deleted K: it returned true and emitted one unset event {key: K};
\* the values of the storage are those it held at the paths that do not run
\* through K, unchanged
UnsetDeletes(K) ==
  /\ last'.ret = "true"
  /\ last'.emits = <<[key |-> Str(K), value |-> Undefined, is_default |-> FALSE]>>
  /\ ~Exists(main_settings'._storage, K)
  /\ ~has(main_settings'._storage, K)
  /\ NodePaths(main_settings'._storage) =
       {p \in NodePaths(main_settings._storage) : ~IsPrefix(Hierarchy(K), p)}
  /\ \A p \in LeafPaths(main_settings'._storage) :
       GetAt(main_settings'._storage, p) = GetAt(main_settings._storage, p)

\* unset(K) has found nothing: it returned false, emitted nothing and the
\* storage is as it was
UnsetFindsNothing ==
  /\ last'.ret = "false"
  /\ last'.emits = <<>>
  /\ main_settings'._storage = main_settings._storage

SetEvent ==
  [key |-> Str(SetArgs.key),
   value |-> IF SetArgs.is_default /\ MapValue
             THEN Val(get(main_settings'._storage, SetArgs.key).v)
             ELSE SetArgs.value,
   is_default |-> SetArgs.is_default]

\* C12 (as claimed, for the keys the spec defines set on: no proper prefix of
\* the key holds a SCALAR): every call of the public set emits exactly one set
\* event {key, value, is_default}, the mutation being applied, also when the
\* call changed nothing (a default set over an existing value, a SCALAR given
\* for the root, which is no error).
C12_SetEmits ==
  [][(SetCall /\ PathOpen(main_settings._storage, SetArgs.key)) =>
       /\ last'.ret = "ok"
       /\ last'.emits = <<SetEvent>>
       /\ (SetArgs.key = <<>> /\ ScalarValue /\ ~SetArgs.is_default) =>
            main_settings'._storage = main_settings._storage]_vars

\* the key exists and stores null / the key is absent, in the storage
StoresNull(root, key) == Find(root, Hierarchy(key)) = [found |-> TRUE, v |-> Null]

Absent(root, key) ==
  /\ Hierarchy(key) # <<>>
  /\ ~Find(root, Hierarchy(key)).found
  /\ ~NullPrefix(root, key)

\* C13 (as claimed): what get returns for a key that is absent differs from
\* what it returns for a key that exists and stores null.
C13_AbsentDistinct ==
  \A k1 \in StoreKeys, k2 \in StoreKeys :
    (StoresNull(main_settings._storage, k1) /\ Absent(main_settings._storage, k2)) =>
      get(main_settings._storage, k1) # get(main_settings._storage, k2)

\* "a\.b" and "a.b"
EscapedKey == <<"a", Backslash, ".", "b">>

DottedKey == <<"a", ".", "b">>

\* C20: a set with the key "a\.b" that returns leaves one top-level property,
\* named by the whole key, which get and has with that key find; every other
\* top-level property is as before, so none named "a" is created; a plain set
\* of a number v stores v there.  A plain set of a number v with the key "a.b"
\* (nothing but a MAP at "a") stores v at property b of the MAP at property a
\* and creates no top-level property named by the key.
C20_EscapedDot ==
  [][/\ (SetCall /\ SetArgs.key = EscapedKey /\ last'.ret = "ok") =>
          /\ EscapedKey \in DOMAIN main_settings'._storage.m
          /\ DOMAIN main_settings'._storage.m =
               (DOMAIN main_settings._storage.m) \cup {EscapedKey}
          /\ \A k \in (DOMAIN main_settings._storage.m) \ {EscapedKey} :
               main_settings'._storage.m[k] = main_settings._storage.m[k]
          /\ has(main_settings'._storage, EscapedKey)
          /\ has(main_settings'._storage, ka) <=> has(main_settings._storage, ka)
          /\ get(main_settings'._storage, EscapedKey) =
               [kind |-> "value", v |-> main_settings'._storage.m[EscapedKey]]
          /\ (~SetArgs.is_default /\ SetArgs.value.v.t = "num") =>
               main_settings'._storage.m[EscapedKey] = SetArgs.value.v
     /\ (/\ SetCall /\ SetArgs.key = DottedKey /\ ~SetArgs.is_default
         /\ SetArgs.value.v.t = "num"
         /\ PathOpen(main_settings._storage, DottedKey)) =>
          /\ last'.ret = "ok"
          /\ Find(main_settings'._storage, <<ka, kb>>) =
               [found |-> TRUE, v |-> SetArgs.value.v]
          /\ DottedKey \notin DOMAIN main_settings'._storage.m
          /\ get(main_settings'._storage, DottedKey) =
               [kind |-> "value", v |-> SetArgs.value.v]]_vars

\* C20 witness: set("a\.b", 1) on {} has stored 1 under the one top-level
\* property and there is no property a
C20_Witness ==
  /\ ncalls = 1
  /\ last.op = "set" /\ last.key = Str(EscapedKey) /\ last.ret = "ok"
  /\ main_settings._storage = Obj1(EscapedKey, Num(1))
  /\ ~has(main_settings._storage, ka)
  /\ get(main_settings._storage, EscapedKey) = [kind |-> "value", v |-> Num(1)]

\* ------------------------------------------------------------------ files: claims
\* this step is the host emitting 'before-quit' by itself
QuitRequest == quits' = quits + 1

\* this step is the last callback of the write cycle i: the callback given to
\* writeSettings runs in it
Completes(i) ==
  /\ i \in DOMAIN cycles
  /\ cycles[i].pc = "write"
  /\ fired' = fired + 1
  /\ cycles' = Without(cycles, i)

\* C14: the main process terminates only in the step in which the callback of
\* a write cycle runs (cycles are started by 'before-quit' only), so never
\* before one has run; every 'before-quit' the host emits before that leaves
\* the process running.
C14_ShutdownFlush ==
  /\ [](proc.pc = "terminated" => fired >= 1)
  /\ [][/\ (QuitRequest /\ fired = 0) => proc'.pc = "running"
        /\ (proc.pc # "terminated" /\ proc'.pc = "terminated") =>
             /\ ~QuitRequest
             /\ \E i \in DOMAIN cycles : Completes(i)
        /\ Len(cycles') > Len(cycles) => QuitRequest]_vars

\* C14 witness: two 'before-quit' were deferred, the settings set meanwhile
\* were written, the callback ran once and the process has terminated
C14_Witness ==
  /\ proc.pc = "terminated" /\ quits = 2 /\ fired = 1 /\ cycles = <<>>
  /\ main_settings._storage = Obj1(kx, Num(1))
  /\ disk.settings_file = Json(Obj1(kx, Num(1)))

\* C15: at most one write cycle is in flight, and isWriting tells whether one
\* is; a 'before-quit' emitted while one is in flight starts no cycle and no
\* file operation and changes no file, and no cycle is started for it later:
\* all in all no more cycles are started than one.
C15_SingleFlight ==
  /\ [](Len(cycles) <= 1 /\ (proc.isWriting <=> cycles # <<>>))
  /\ [](fired + Len(cycles) <= 1)
  /\ [][(QuitRequest /\ cycles # <<>>) =>
          /\ cycles' = cycles
          /\ disk' = disk
          /\ fired' = fired
          /\ proc' = proc]_vars

\* C15 witness: the second 'before-quit' came while fs.writeFile of the first
\* was pending, and there is still the one cycle
C15_Witness ==
  /\ quits = 2 /\ fired = 0
  /\ Len(cycles) = 1 /\ cycles[1].pc = "write"
  /\ proc.isWriting

\* C16 (as claimed): when a write cycle started with a settings file, a
\* backup directory and no backup of the hour, then at its end the backup of
\* the hour holds what the settings file held when the cycle started.
C16_HourlyBackup ==
  [][\A i \in DOMAIN cycles :
       (/\ Completes(i)
        /\ disk.backup_dir
        /\ ~cycles[i].had_backup
        /\ cycles[i].old_primary.kind # "none") =>
         disk'.backups[cycles[i].backup_path] = cycles[i].old_primary]_vars

\* this step is readSettings
Loads == proc.pc = "start" /\ proc'.pc # "start"

\* the newest backup whose text parses, NoFile when there is none
NewestBackup ==
  IF \E h \in Hours : disk.backups[h].kind = "json"
  THEN disk.backups[CHOOSE h \in Hours :
                      /\ disk.backups[h].kind = "json"
                      /\ \A g \in Hours : disk.backups[g].kind = "json" => g <= h]
  ELSE NoFile

\* C17 (as claimed): with a settings file that cannot be read or parsed,
\* loading completes, and the storage is then the content of the newest backup
\* that parses, or {} when no backup parses.
C17_LoadRecovery ==
  [][(Loads /\ disk.settings_file.kind = "bad") =>
       /\ proc'.pc = "running"
       /\ main_settings'._storage =
            IF NewestBackup.kind = "json" THEN NewestBackup.v ELSE EmptyObj]_vars

\* C18 (as claimed): when loading has completed, whatever it found, _ready is
\* true on the Settings of the main process.
C18_MasterReady ==
  [][(Loads /\ proc'.pc = "running") => main_settings'._ready]_vars

\* ------------------------------------------------------------------ promises: claims
\* in this step the page of e takes the first 'configurator-master-set' of its life
FirstMasterSet(e) ==
  /\ PageTakes(e)
  /\ Arriving(e, "configurator-master-set")
  /\ ~renderer_settings[e]._ready

\* in this step the caller of the page of e makes a promises call
Calls(e) == Len(promises'[e]) = Len(promises[e]) + 1

\* C19 (as claimed): while _ready is false no operation of a promises call has
\* run and every promise is pending; in the step that takes the first
\* 'configurator-master-set' every waiting operation runs, in the order of the
\* calls, and its promise resolves, the first with the result the operation
\* has on the storage with the message applied; an operation that has run never
\* runs again; a promises call made with _ready true runs its operation at once.
C19_DeferredAccess ==
  /\ [](\A e \in Endpoints :
          ~renderer_settings[e]._ready =>
            /\ waiters[e] = [i \in DOMAIN promises[e] |-> i]
            /\ \A i \in DOMAIN promises[e] :
                 promises[e][i].state = "pending" /\ promises[e][i].seq = 0)
  /\ [][\A e \in Endpoints :
          /\ FirstMasterSet(e) =>
               /\ waiters'[e] = <<>>
               /\ \A i \in DOMAIN promises[e] :
                    /\ promises'[e][i].state = "resolved"
                    /\ promises'[e][i].seq = i
               /\ promises[e] # <<>> =>
                    promises'[e][1].result =
                      Perform(Applied(renderer_settings[e]._storage, Head(toRenderer[e])),
                              promises[e][1]).result
          /\ \A i \in DOMAIN promises[e] :
               promises[e][i].seq > 0 => promises'[e][i] = promises[e][i]
          /\ (Calls(e) /\ renderer_settings[e]._ready) =>
               /\ promises'[e][Len(promises'[e])].seq = Performed(promises[e]) + 1
               /\ promises'[e][Len(promises'[e])].state # "pending"
               /\ waiters'[e] = waiters[e]]_vars

\* ------------------------------------------------------------------ races: claims
\* C21 (as claimed): the main process, applying the plain set of a number or
\* of null that a page sent, holds that value at the key afterwards; and
\* whenever no message is in flight every registered replica whose page is
\* loaded has the storage of the main process.
C21_LastWriteWins ==
  /\ [](Quiescent =>
          \A e \in Endpoints :
            (Registered(e) /\ page[e] = "loaded") =>
              renderer_settings[e]._storage = main_settings._storage)
  /\ [][\A e \in Endpoints :
          MainTakes(e, "configurator-set") =>
            Find(main_settings'._storage, Hierarchy(Head(toMain[e]).key.s)) =
              [found |-> TRUE, v |-> Head(toMain[e]).value.v]]_vars

\* ------------------------------------------------------------------ files: more claims
\* C22 (as claimed): a backup that exists is not changed by any step, in
\* particular not by a write cycle of its hour.
C22_BackupStable ==
  [][\A h \in Hours :
       (disk.backup_dir /\ disk.backups[h].kind # "none") =>
         disk'.backups[h] = disk.backups[h]]_vars

\* C24 (as claimed): when the last callback of a write cycle has written the
\* settings file and the process terminates in that step, the file holds the
\* serialization of the storage the main process has in that step.
C24_FlushedIsFinal ==
  [][\A i \in DOMAIN cycles :
       (/\ Completes(i)
        /\ proc'.pc = "terminated"
        /\ disk'.settings_file = Json(cycles[i].data)) =>
         cycles[i].data = JSONstringify(main_settings'._storage)]_vars

\* C26 (as claimed): no endpoint is in listeners more than once.
C26_NoDuplicates == \A e \in Endpoints : Count(e, listeners) <= 1

\* C29 (as claimed): loading never fails: no error of the file system leaves
\* readSettings, and when loading is over the process runs with a storage.
C29_FailuresContained ==
  /\ proc.pc # "failed"
  /\ proc.pc = "running" => HoldsProps(main_settings._storage)

\* C23 (as claimed): when the main process stopped during a write cycle that
\* had found a settings file with a storage in it, the loading of the next
\* start completes and yields that storage or the storage that was being
\* written.
C23_AtomicWrite ==
  [][(/\ proc.pc = "stopped" /\ proc'.pc # "stopped"
      /\ cycles # <<>>
      /\ cycles[1].old_primary.kind = "json") =>
       /\ proc'.pc = "running"
       /\ main_settings'._storage \in
            {cycles[1].old_primary.v, JSONstringify(main_settings._storage)}
            \cup (IF cycles[1].pc = "write" THEN {cycles[1].data} ELSE {})]_vars

\* C27: once the host has emitted 'before-quit' the main process terminates,
\* and every write cycle comes to its end with the callback run, whether or
\* not fs.rename and fs.writeFile succeed and whatever further 'before-quit'
\* arrive meanwhile.
C27_ShutdownLiveness ==
  /\ (quits > 0) ~> (proc.pc = "terminated")
  /\ (cycles # <<>>) ~> (cycles = <<>> /\ fired > 0)

\* C27 witness: the process has terminated after two 'before-quit' and a cycle
\* whose rename went through and whose write was cut short
C27_Witness ==
  /\ proc.pc = "terminated" /\ quits = 2 /\ fired = 1 /\ cycles = <<>>
  /\ disk.settings_file = BadFile
  /\ disk.backups[1] = Json(FileObjA)

\* C28 (as claimed): at the end of every write cycle, whatever became of its
\* file operations, isWriting is false, and when there was a settings file at
\* the start of the cycle (so that it was watched) it is watched again.
C28_FlagClearedOriginal ==
  [][\A i \in DOMAIN cycles :
       Completes(i) =>
         /\ ~proc'.isWriting
         /\ cycles[i].old_primary.kind # "none" => proc'.watching]_vars

\* C28: a write cycle starts with isWriting true and the watcher closed; at its
\* end, whatever became of its file operations, isWriting is false, so that
\* writeSettings would not return at once, and enableWatchSettings has run: the
\* settings file is watched if and only if it exists.
C28_FlagCleared ==
  [][/\ Len(cycles') > Len(cycles) => (proc'.isWriting /\ ~proc'.watching)
     /\ \A i \in DOMAIN cycles :
          (cycles[i].pc = "write" /\ cycles' = Without(cycles, i)) =>
            /\ ~proc'.isWriting
            /\ ~Dropped(proc')
            /\ proc'.watching <=> (disk'.settings_file.kind # "none")]_vars

\* C28 witness: a cycle has ended whose rename went through and whose write
\* left the settings file as it was, missing: the flag is cleared, nothing is watched
C28_Witness ==
  /\ fired = 1 /\ cycles = <<>>
  /\ ~proc.isWriting /\ ~proc.watching
  /\ disk.settings_file = NoFile
  /\ disk.backups[1] = Json(FileObjA)

\* ------------------------------------------------------------------ store: more claims
\* a proper prefix of the path of the key holds a SCALAR (a number or null)
ScalarOnPath(root, key) ==
  \E i \in 1..(Len(Hierarchy(key)) - 1) :
    /\ Find(root, SubSeq(Hierarchy(key), 1, i)).found
    /\ Find(root, SubSeq(Hierarchy(key), 1, i)).v.t \in {"num", "null"}

\* C25 (as claimed): a set on a key whose path passes through a SCALAR
\* returns without an error and leaves the storage as it was.
C25_ScalarOnPathOriginal ==
  [][(SetCall /\ ScalarOnPath(main_settings._storage, SetArgs.key)) =>
       /\ last'.ret = "ok"
       /\ main_settings'._storage = main_settings._storage]_vars

\* C25 (amended): a set on a key whose path passes through a SCALAR throws
\* (a TypeError), emits no event and leaves the storage as it was: the SCALAR
\* is kept and no key is added.
C25_ScalarOnPath ==
  [][(SetCall /\ ScalarOnPath(main_settings._storage, SetArgs.key)) =>
       /\ last'.ret = "throw"
       /\ last'.emits = <<>>
       /\ main_settings'._storage = main_settings._storage]_vars

\* C25 witness: after set("a", 1) the call set("a.b", 1) has thrown, and a is 1
C25_Witness ==
  /\ ncalls = 2
  /\ last.op = "set" /\ last.key = Str(<<"a", ".", "b">>) /\ last.value = Val(Num(1))
  /\ last.ret = "throw"
  /\ main_settings._storage = Obj1(ka, Num(1))

====
